---------------------------- MODULE Spec2Model ----------------------------
(***************************************************************************)
(* The modem proxy of huaweisms/proxy/proxy_server.py: a scheduler that    *)
(* invokes ModemScraper.run every interval, the scraper's login/fetch      *)
(* loop, the lock-protected ModemData store, and the readers of the store. *)
(***************************************************************************)
EXTENDS Integers, Sequences, FiniteSets, TLC

\* ------------------------------------------------------------------ bounds
\* Number of entries of END_POINTS that the model polls (the program has 5).
NumEndPoints == 3

\* settings.ERROR_COUNTDOWN: the configured number of ticks skipped after a failure.
ERROR_COUNTDOWN == 2

\* --------------------------------------------------------------- constants
EndPointNames ==
  << "/api/device/signal", "/api/net/net-mode", "/api/net/current-plmn",
     "/api/device/information", "/api/monitoring/traffic-statistics" >>

END_POINTS == SubSeq(EndPointNames, 1, NumEndPoints)

EndPointSet == { END_POINTS[k] : k \in 1..Len(END_POINTS) }

\* Python's None (an absent session, a missing dictionary key).
None == "None"

\* The session handle quick_login returns.
Session == "ctx"

\* Well-formed XML bodies without an error element.
Bodies == { "xml1", "xml2" }

\* A well-formed body that carries the modem's <error> element.
ErrorBody == "xml-error"

\* A body that parse_xml_string rejects.
MalformedBody == "not-xml"

\* A body that parses but on which check_error itself raises.
UncheckableBody == "xml-odd"

\* The body of a response whose status is not 200.
ErrorPage == "error-page"

Texts == Bodies \cup { ErrorBody, MalformedBody, UncheckableBody }

\* mutant: the job is added with max_instances=2
max_instances_two == 1 + 1

\* add_job(..., max_instances=1)
max_instances == 1

\* parse_xml_string(text) raises on a body that is not XML.
ParseRaises(text) == text = MalformedBody

\* check_error(xmldoc.documentElement) raises.
CheckRaises(text) == text = UncheckableBody

\* mutant: check_error finds no error in any body
check_error_blind(text) == None

\* check_error(xmldoc.documentElement): the error found, or None.
check_error(text) == IF text = ErrorBody THEN "error" ELSE None

\* What get_from_url_raw can return: a status code and a body.
Responses ==
  [ status_code : {200}, text : Texts ] \cup [ status_code : {500}, text : {ErrorPage} ]

NoResult == [ status_code |-> 0, text |-> None ]

\* The empty dictionary.
EmptyDict == [ k \in {} |-> None ]

\* dict.get(key, None)
DictGet(d, key) == IF key \in DOMAIN d THEN d[key] ELSE None

\* mutant: the dictionary is replaced by one holding only the new entry
DictReplace(d, key, value) == [ k \in {key} |-> value ]

\* mutant: the assignment is lost
DictKeep(d, key, value) == d

\* d[key] = value
DictSet(d, key, value) ==
  [ k \in (DOMAIN d) \cup {key} |-> IF k = key THEN value ELSE d[k] ]

\* the keys that dictionaries d and e map differently, or that only one of them has
DictDiff(d, e) ==
  { k \in (DOMAIN d) \cup (DOMAIN e) :
      \/ (k \in DOMAIN d) # (k \in DOMAIN e)
      \/ DictGet(d, k) # DictGet(e, k) }

\* ---------------------------------------------------------------- state
VARIABLES
  data,             \* ModemData._data
  lock,             \* ModemData._lock: "free" or the thread that holds it
  ctx,              \* ModemScraper._ctx
  error_countdown,  \* ModemScraper._error_countdown
  pc,               \* position of the scraper thread inside run ("idle": no run)
  i,                \* index into END_POINTS of the loop of run
  result,           \* the local variable result of run
  pending,          \* the exception propagating in run ("none" if there is none)
  outcome,          \* how the last invocation of run ended: "returned" or "raised"
                    \* ("none" while run is in progress)
  instances,        \* the executor's count of running instances of the job
  missed,           \* a tick was skipped during the current or last run
  schedState,       \* the scheduler: "created", "running", "shutdown", "dead"
  mainPc,           \* position of main ("done": it returned; "failed": an
                    \* exception left it)
  readers,          \* the reader threads that call get_data
  resp,             \* the last response of the HTTP front end
  logged,           \* log_contents: the number of entries the loop has logged since
                    \* it entered the lock
  healthySince,     \* the modem: -1 while its answers may fail; once it answers
                    \* every call well, the number of fetches of the current run
                    \* that were issued before that
  \* history variables
  dumps,            \* number of calls of log_contents made by the current run
  touched,          \* the keys whose entry changed since the current run started
  fetchLog,         \* the responses of the fetches of the current run, in order
  logins,           \* number of quick_login calls of the current run
  raisedIn,         \* the call of the current run's try block that raised
  lastGood,         \* per endpoint, the body of its latest fetch with status 200 and no error
  sinceFail         \* number of runs started since the last failing run, kept until
                    \* the run that follows the countdown calls quick_login (-1: none)

scraperVars == << ctx, error_countdown, pc, i, result, pending, outcome, logged >>
storeVars == << data, lock >>
schedVars == << instances, missed, schedState >>
histVars == << touched, fetchLog, logins, raisedIn, lastGood, sinceFail, dumps >>

vars == << data, lock, ctx, error_countdown, pc, i, result, pending, outcome,
           instances, missed, schedState, mainPc, readers, resp,
           touched, fetchLog, logins, raisedIn, lastGood, sinceFail,
           logged, dumps, healthySince >>

Readers == { "r1" }

IdleReader == [ pc |-> "idle", key |-> None, value |-> None, cand |-> {} ]

\* no request has been served yet
NoResp == [ end_point |-> None, cached |-> None,
            response |-> [ status |-> 0, body |-> None ] ]

Init ==
  /\ data = EmptyDict
  /\ lock = "free"
  /\ ctx = None
  /\ error_countdown = 0
  /\ pc = "idle"
  /\ i = 1
  /\ result = NoResult
  /\ pending = "none"
  /\ outcome = "none"
  /\ instances = 0
  /\ missed = FALSE
  /\ schedState = "created"
  /\ mainPc = "start"
  /\ readers = [ r \in Readers |-> IdleReader ]
  /\ resp = NoResp
  /\ touched = {}
  /\ fetchLog = << >>
  /\ logins = 0
  /\ raisedIn = "none"
  /\ lastGood = [ e \in EndPointSet |-> None ]
  /\ sinceFail = -1
  /\ logged = 0
  /\ dumps = 0
  /\ healthySince = -1


\* ------------------------------------------------------ ModemData (store)
\* The candidates of a get_data in progress: every value its key has held since
\* the call began.  A write of `value` under `key` adds to them.
NoteWrite(rs, key, value) ==
  [ r \in DOMAIN rs |->
      IF rs[r].pc \in { "acquire", "read" } /\ rs[r].key = key
        THEN [ rs[r] EXCEPT !.cand = @ \cup { value } ]
        ELSE rs[r] ]

\* mutant: the block is entered without waiting for the lock
AcquireNoWait(t) == lock' = t

\* `with self._lock:` entered by thread t
Acquire(t) ==
  /\ lock = "free"
  /\ lock' = t

\* leaving the `with self._lock:` block
Release == lock' = "free"

\* the loop of run moves to its next end point, or ends (the finally block follows)
NextEndPoint ==
  IF i < Len(END_POINTS)
    THEN /\ i' = i + 1
         /\ pc' = "fetch"
    ELSE /\ i' = i
         /\ pc' = "finally"

\* set_data(key, value), first step: the scraper enters the lock
SetAcquire ==
  /\ pc = "set_data"
  /\ Acquire("scraper")
  /\ pc' = "set_write"
  /\ UNCHANGED << data, ctx, error_countdown, i, result, pending, outcome,
                  schedVars, mainPc, readers, resp, histVars, logged,
                  healthySince >>

\* set_data(key, value), second step: self._data[key] = value, and the lock is left
SetWrite ==
  /\ pc = "set_write"
  /\ data' = DictSet(data, END_POINTS[i], result.text)
  /\ readers' = NoteWrite(readers, END_POINTS[i], result.text)
  /\ touched' = touched \cup DictDiff(data, data')
  /\ Release
  /\ NextEndPoint
  /\ UNCHANGED << ctx, error_countdown, result, pending, outcome,
                  schedVars, mainPc, resp,
                  fetchLog, logins, raisedIn, lastGood, sinceFail, logged, dumps,
                  healthySince >>

\* get_data(key) is called by reader r
GetCall(r, key) ==
  /\ readers[r].pc = "idle"
  /\ readers' = [ readers EXCEPT ![r] =
       [ pc |-> "acquire", key |-> key, value |-> None,
         cand |-> { DictGet(data, key) } ] ]
  /\ UNCHANGED << storeVars, scraperVars, schedVars, mainPc, resp, histVars,
                  healthySince >>

\* get_data(key): reader r enters the lock
GetAcquire(r) ==
  /\ readers[r].pc = "acquire"
  /\ Acquire(r)
  /\ readers' = [ readers EXCEPT ![r].pc = "read" ]
  /\ UNCHANGED << data, scraperVars, schedVars, mainPc, resp, histVars,
                  healthySince >>

\* get_data(key): return self._data.get(key, None), and the lock is left; the
\* reader keeps the value returned
GetRead(r) ==
  /\ readers[r].pc = "read"
  /\ readers' = [ readers EXCEPT ![r] =
       [ IdleReader EXCEPT !.value = DictGet(data, readers[r].key) ] ]
  /\ Release
  /\ UNCHANGED << data, scraperVars, schedVars, mainPc, resp, histVars,
                  healthySince >>

\* log_contents(), first step: the scraper enters the lock (finally block of run)
LogAcquire ==
  /\ pc = "finally"
  /\ Acquire("scraper")
  /\ pc' = "log"
  /\ dumps' = dumps + 1
  /\ UNCHANGED << data, ctx, error_countdown, i, result, pending, outcome, logged,
                  schedVars, mainPc, readers, resp,
                  touched, fetchLog, logins, raisedIn, lastGood, sinceFail,
                  healthySince >>

\* log_contents(), the body of its loop: the next entry is formatted and logged,
\* with the lock held.  Formatting an entry may raise (a body that the format
\* call cannot encode): the lock is left and run ends with that exception.
LogEntry ==
  /\ pc = "log"
  /\ logged < Cardinality(DOMAIN data)
  /\ \/ /\ logged' = logged + 1
        /\ UNCHANGED << lock, pc, pending, outcome >>
     \/ /\ Release
        /\ logged' = 0
        /\ pc' = "done"
        /\ pending' = "dump"
        /\ outcome' = "raised"
  /\ UNCHANGED << data, ctx, error_countdown, i, result,
                  schedVars, mainPc, readers, resp, histVars,
                  healthySince >>

\* log_contents(), the end of its loop: every entry has been logged, the lock is
\* left and run ends (with the exception that is propagating, if there is one)
LogDump ==
  /\ pc = "log"
  /\ logged = Cardinality(DOMAIN data)
  /\ Release
  /\ logged' = 0
  /\ pc' = "done"
  /\ outcome' = IF pending # "none" THEN "raised" ELSE "returned"
  /\ UNCHANGED << data, ctx, error_countdown, i, result, pending,
                  schedVars, mainPc, readers, resp, histVars,
                  healthySince >>

\* ------------------------------------------------------ ModemScraper.run
\* mutant: the countdown test is off by one
InCooldownOffByOne == error_countdown > 1

\* `if self._error_countdown > 0`
InCooldown == error_countdown > 0

\* mutant: the countdown is not decremented
DecrementNot(n) == n

\* mutant: the countdown is decremented by two
DecrementTwice(n) == n - 2

\* `self._error_countdown -= 1`
Decrement(n) == n - 1

\* mutant: quick_login is called whether or not a session is held
NeedsLoginAlways == TRUE

\* `if self._ctx is None`
NeedsLogin == ctx = None

\* run, lines 64-68: a positive countdown is decremented and run returns;
\* otherwise run logs in when it holds no session, and starts the loop.
RunCountdown ==
  /\ pc = "countdown"
  /\ IF InCooldown
       THEN /\ error_countdown' = Decrement(error_countdown)
            /\ pc' = "finally"
       ELSE /\ error_countdown' = error_countdown
            /\ pc' = IF NeedsLogin THEN "login" ELSE "fetch"
  /\ UNCHANGED << storeVars, ctx, i, result, pending, outcome,
                  schedVars, mainPc, readers, resp, histVars, logged,
                  healthySince >>

\* a response with status 200 whose body parses and carries no error
Good(r) ==
  /\ r.status_code = 200
  /\ ~ ParseRaises(r.text)
  /\ ~ CheckRaises(r.text)
  /\ check_error(r.text) = None

\* the modem answers every call well from now on: quick_login returns a
\* session, get_from_url_raw returns status 200 and a body without an error
Reliable == healthySince >= 0

\* the modem becomes reliable, and stays so
Recover ==
  /\ ~ Reliable
  /\ healthySince' = Len(fetchLog)
  /\ UNCHANGED << storeVars, scraperVars, schedVars, mainPc, readers, resp, histVars >>

\* run, lines 75-77: quick_login returns a session, or raises
Login ==
  /\ pc = "login"
  /\ logins' = logins + 1
  /\ sinceFail' = -1
  /\ \/ /\ ctx' = Session
        /\ pc' = "fetch"
        /\ UNCHANGED << pending, raisedIn >>
     \/ /\ ~ Reliable
        /\ pending' = "login"
        /\ raisedIn' = "login"
        /\ pc' = "except"
        /\ UNCHANGED ctx
  /\ UNCHANGED << storeVars, error_countdown, i, result, outcome,
                  schedVars, mainPc, readers, resp,
                  touched, fetchLog, lastGood, logged, dumps,
                  healthySince >>

\* run, lines 81-86: get_from_url_raw returns a response, or raises
Fetch ==
  /\ pc = "fetch"
  /\ \/ \E r \in Responses :
          /\ Reliable => Good(r)
          /\ result' = r
          /\ fetchLog' = Append(fetchLog, [ end_point |-> END_POINTS[i],
                                            status_code |-> r.status_code,
                                            text |-> r.text ])
          /\ lastGood' = IF Good(r) THEN [ lastGood EXCEPT ![END_POINTS[i]] = r.text ]
                                    ELSE lastGood
          /\ pc' = "check"
          /\ UNCHANGED << pending, raisedIn >>
     \/ /\ ~ Reliable
        /\ fetchLog' = Append(fetchLog, [ end_point |-> END_POINTS[i],
                                          status_code |-> 0, text |-> None ])
        /\ pending' = "fetch"
        /\ raisedIn' = "fetch"
        /\ pc' = "except"
        /\ UNCHANGED << result, lastGood >>
  /\ UNCHANGED << storeVars, ctx, error_countdown, i, outcome,
                  schedVars, mainPc, readers, resp, touched, logins, sinceFail, logged, dumps,
                  healthySince >>

\* mutant: the status of the response is not looked at
StatusAny(r) == TRUE

\* `if result.status_code == 200`
StatusOk(r) == r.status_code = 200

\* mutant: the error branch lacks its `break`
OnErrorNoBreak ==
  /\ ctx' = None
  /\ error_countdown' = ERROR_COUNTDOWN
  /\ sinceFail' = 0
  /\ NextEndPoint

\* mutant: the error branch arms the countdown but keeps the session
OnErrorKeepsSession ==
  /\ ctx' = ctx
  /\ error_countdown' = ERROR_COUNTDOWN
  /\ sinceFail' = 0
  /\ i' = i
  /\ pc' = "finally"

\* run, lines 92-96: an error in the body clears the session, arms the
\* countdown and leaves the loop
OnError ==
  /\ ctx' = None
  /\ error_countdown' = ERROR_COUNTDOWN
  /\ sinceFail' = 0
  /\ i' = i
  /\ pc' = "finally"

\* run, lines 87-99 up to the call of set_data: a response that is not OK is
\* skipped; an OK one is parsed and checked; an error found clears the session,
\* arms the countdown and leaves the loop.
Check ==
  /\ pc = "check"
  /\ IF ~ StatusOk(result)
       THEN /\ NextEndPoint
            /\ UNCHANGED << ctx, error_countdown, pending, raisedIn, sinceFail >>
       ELSE IF ParseRaises(result.text) \/ CheckRaises(result.text)
         THEN /\ pending' = IF ParseRaises(result.text) THEN "parse" ELSE "check"
              /\ raisedIn' = pending'
              /\ pc' = "except"
              /\ UNCHANGED << ctx, error_countdown, i, sinceFail >>
         ELSE IF check_error(result.text) # None
           THEN /\ OnError
                /\ UNCHANGED << pending, raisedIn >>
           ELSE /\ pc' = "set_data"
                /\ UNCHANGED << ctx, error_countdown, i, pending, raisedIn, sinceFail >>
  /\ UNCHANGED << storeVars, result, outcome, schedVars, mainPc, readers, resp,
                  touched, fetchLog, logins, lastGood, logged, dumps,
                  healthySince >>

\* mutant: the handler logs the exception and lets it go on
ExceptReraise ==
  /\ pc = "except"
  /\ pc' = "finally"
  /\ UNCHANGED << storeVars, ctx, error_countdown, i, result, pending, outcome,
                  schedVars, mainPc, readers, resp, histVars, logged,
                  healthySince >>

\* mutant: the handler arms the countdown but keeps the session
ExceptKeepsSession ==
  /\ pc = "except"
  /\ pending' = "none"
  /\ ctx' = ctx
  /\ error_countdown' = ERROR_COUNTDOWN
  /\ sinceFail' = 0
  /\ pc' = "finally"
  /\ UNCHANGED << storeVars, i, result, outcome, schedVars, mainPc, readers, resp,
                  touched, fetchLog, logins, raisedIn, lastGood, logged, dumps,
                  healthySince >>

\* mutant: the handler ends run, as if there were no finally block
ExceptNoFinally ==
  /\ pc = "except"
  /\ pending' = "none"
  /\ ctx' = None
  /\ error_countdown' = ERROR_COUNTDOWN
  /\ sinceFail' = 0
  /\ pc' = "done"
  /\ outcome' = "returned"
  /\ UNCHANGED << storeVars, i, result, schedVars, mainPc, readers, resp,
                  touched, fetchLog, logins, raisedIn, lastGood, logged, dumps,
                  healthySince >>

\* run, lines 101-105: `except Exception` clears the session and arms the countdown
Except ==
  /\ pc = "except"
  /\ pending' = "none"
  /\ ctx' = None
  /\ error_countdown' = ERROR_COUNTDOWN
  /\ sinceFail' = 0
  /\ pc' = "finally"
  /\ UNCHANGED << storeVars, i, result, outcome, schedVars, mainPc, readers, resp,
                  touched, fetchLog, logins, raisedIn, lastGood, logged, dumps,
                  healthySince >>


\* ------------------------------------------- scheduler (BackgroundScheduler)
\* between runs no fetch of a current run precedes the modem's recovery
FromRunStart(h) == IF h > 0 THEN 0 ELSE h

\* The interval trigger fires.  With max_instances=1 the executor refuses the
\* job while an instance of it runs: the tick is skipped, and nothing is kept
\* of it.  Otherwise an instance is counted and run is invoked.
Tick ==
  /\ schedState = "running"
  /\ IF instances < max_instances
       THEN /\ instances' = instances + 1
            /\ missed' = FALSE
            /\ pc' = "countdown"
            /\ i' = 1
            /\ result' = NoResult
            /\ outcome' = "none"
            /\ touched' = {}
            /\ fetchLog' = << >>
            /\ logins' = 0
            /\ raisedIn' = "none"
            /\ sinceFail' = IF sinceFail \in 0..ERROR_COUNTDOWN
                              THEN sinceFail + 1 ELSE -1
            /\ dumps' = 0
            /\ healthySince' = FromRunStart(healthySince)
       ELSE /\ missed' = TRUE
            /\ UNCHANGED << instances, pc, i, result, outcome, touched, fetchLog,
                            logins, raisedIn, sinceFail, dumps, healthySince >>
  /\ UNCHANGED << storeVars, ctx, error_countdown, pending, schedState,
                  mainPc, readers, resp, lastGood, logged >>

\* what the end of an invocation of run resets
JobReset ==
  /\ pending' = "none"
  /\ outcome' = outcome
  /\ result' = NoResult
  /\ touched' = {}
  /\ fetchLog' = << >>
  /\ logins' = 0
  /\ raisedIn' = "none"
  /\ healthySince' = FromRunStart(healthySince)

\* mutant: a tick skipped during the run is kept, and run is invoked again as
\* soon as the instance is released
JobDoneRequeue ==
  /\ pc = "done"
  /\ JobReset
  /\ IF missed /\ schedState = "running"
       THEN /\ pc' = "countdown"
            /\ i' = 1
            /\ missed' = FALSE
            /\ UNCHANGED instances
       ELSE /\ pc' = "idle"
            /\ instances' = instances - 1
            /\ UNCHANGED << i, missed >>
  /\ sinceFail' = IF sinceFail > ERROR_COUNTDOWN THEN -1 ELSE sinceFail
  /\ UNCHANGED << storeVars, ctx, error_countdown, schedState,
                  mainPc, readers, resp, lastGood, logged, dumps >>

\* mutant: an exception that escapes run ends the scheduler's thread
JobDoneFatal ==
  /\ pc = "done"
  /\ JobReset
  /\ instances' = instances - 1
  /\ pc' = "idle"
  /\ schedState' = IF outcome = "raised" /\ schedState = "running"
                     THEN "dead" ELSE schedState
  /\ sinceFail' = IF sinceFail > ERROR_COUNTDOWN THEN -1 ELSE sinceFail
  /\ UNCHANGED << storeVars, ctx, error_countdown, i, missed,
                  mainPc, readers, resp, lastGood, logged, dumps >>

\* The executor's worker has run the job: it catches whatever run raised, logs
\* it, and releases the instance.  The job stays scheduled either way.
JobDone ==
  /\ pc = "done"
  /\ instances' = instances - 1
  /\ pc' = "idle"
  /\ JobReset
  /\ sinceFail' = IF sinceFail > ERROR_COUNTDOWN THEN -1 ELSE sinceFail
  /\ UNCHANGED << storeVars, ctx, error_countdown, i, missed, schedState,
                  mainPc, readers, resp, lastGood, logged, dumps >>

\* ------------------------------------------------------------------- main
\* main, line 178: scheduler.start() starts the scheduler, or raises before the
\* scheduler is running (the finally block follows at once)
MainStart ==
  /\ mainPc = "start"
  /\ \/ /\ schedState' = "running"
        /\ mainPc' = "build"
     \/ /\ schedState' = schedState
        /\ mainPc' = "shutdown"
  /\ UNCHANGED << storeVars, scraperVars, instances, missed, readers, resp, histVars,
                  healthySince >>

\* main, line 179: the front end is built (or building it raises)
MainBuild ==
  /\ mainPc = "build"
  /\ mainPc' \in { "serve", "shutdown" }
  /\ UNCHANGED << storeVars, scraperVars, schedVars, readers, resp, histVars,
                  healthySince >>

\* main, lines 180-183: app.run returns, is interrupted or raises
MainServeEnds ==
  /\ mainPc = "serve"
  /\ mainPc' = "shutdown"
  /\ UNCHANGED << storeVars, scraperVars, schedVars, readers, resp, histVars,
                  healthySince >>

\* main, line 184: scheduler.shutdown() stops the trigger of a running
\* scheduler ...; on a scheduler that was never started the call raises
\* (SchedulerNotRunningError) out of the finally block, and main ends with it
MainShutdown ==
  /\ mainPc = "shutdown"
  /\ IF schedState = "running"
       THEN /\ schedState' = "shutdown"
            /\ mainPc' = "wait"
       ELSE /\ schedState' = schedState
            /\ mainPc' = "failed"
  /\ UNCHANGED << storeVars, scraperVars, instances, missed, readers, resp, histVars,
                  healthySince >>

\* ... and waits for the running instance, if any
MainShutdownDone ==
  /\ mainPc = "wait"
  /\ instances = 0
  /\ mainPc' = "done"
  /\ UNCHANGED << storeVars, scraperVars, schedVars, readers, resp, histVars,
                  healthySince >>

\* ------------------------------------------------------ HTTP front end
\* The attributes of a ModemData object.
ModemDataAttrs == { "_lock", "_data", "set_data", "get_data", "log_contents" }

\* Positional parameters of the view function `handler(request, server)`.
HandlerParams == 2

\* Arguments the front end passes to a view function of a rule without variables.
ViewArgs == 0

\* The view function of an end point, as the front end calls it: the call fails
\* on its arguments; the body, were it entered, looks up `get` on the store.
handler(end_point) ==
  IF ViewArgs # HandlerParams
    THEN [ status |-> 500, body |-> None ]
    ELSE IF "get" \notin ModemDataAttrs
      THEN [ status |-> 500, body |-> None ]
      ELSE [ status |-> 200, body |-> DictGet(data, end_point) ]

\* a GET of an end point's path is served
HttpGet(end_point) ==
  /\ mainPc = "serve"
  /\ resp' = [ end_point |-> end_point, cached |-> DictGet(data, end_point),
               response |-> handler(end_point) ]
  /\ UNCHANGED << storeVars, scraperVars, schedVars, mainPc, readers, histVars,
                  healthySince >>

\* ----------------------------------------------------------- specification
Next ==
  \/ Tick
  \/ JobDone
  \/ RunCountdown
  \/ Login
  \/ Fetch
  \/ Check
  \/ SetAcquire
  \/ SetWrite
  \/ Except
  \/ LogAcquire
  \/ LogEntry
  \/ LogDump
  \/ MainStart
  \/ MainBuild
  \/ MainServeEnds
  \/ MainShutdown
  \/ MainShutdownDone

Spec == Init /\ [][Next]_vars

\* main has started the scheduler and built the front end, and serves
InitServing ==
  /\ data = EmptyDict
  /\ lock = "free"
  /\ ctx = None
  /\ error_countdown = 0
  /\ pc = "idle"
  /\ i = 1
  /\ result = NoResult
  /\ pending = "none"
  /\ outcome = "none"
  /\ instances = 0
  /\ missed = FALSE
  /\ schedState = "running"
  /\ mainPc = "serve"
  /\ readers = [ r \in Readers |-> IdleReader ]
  /\ resp = NoResp
  /\ touched = {}
  /\ fetchLog = << >>
  /\ logins = 0
  /\ raisedIn = "none"
  /\ lastGood = [ e \in EndPointSet |-> None ]
  /\ sinceFail = -1
  /\ logged = 0
  /\ dumps = 0
  /\ healthySince = -1

\* the scraper's runs, interleaved with readers that call get_data while main serves
NextReaders ==
  \/ Tick
  \/ JobDone
  \/ RunCountdown
  \/ Login
  \/ Fetch
  \/ Check
  \/ SetAcquire
  \/ SetWrite
  \/ Except
  \/ LogAcquire
  \/ LogEntry
  \/ LogDump
  \/ \E r \in Readers, key \in EndPointSet : GetCall(r, key)
  \/ \E r \in Readers : GetAcquire(r)
  \/ \E r \in Readers : GetRead(r)

SpecReaders == InitServing /\ [][NextReaders]_vars

NextHttp ==
  \/ Next
  \/ \E e \in EndPointSet : HttpGet(e)

SpecHttp == Init /\ [][NextHttp]_vars

\* The scheduler's thread keeps firing the trigger while it runs, and the
\* executor's worker releases every instance whose run has ended.
FairSpec == Init /\ [][Next]_vars /\ WF_vars(Tick) /\ WF_vars(JobDone)


\* one step of the scraper's thread inside run
RunStep ==
  \/ RunCountdown
  \/ Login
  \/ Fetch
  \/ Check
  \/ SetAcquire
  \/ SetWrite
  \/ Except
  \/ LogAcquire
  \/ LogEntry
  \/ LogDump

\* the scheduler and the scraper while main serves, with a modem that may
\* become reliable
NextLive ==
  \/ Tick
  \/ JobDone
  \/ RunStep
  \/ Recover

\* Ticks keep firing (the scheduler runs and is not shut down), the executor
\* releases ended instances, and the scraper's thread goes on inside run: every
\* call it makes to the modem returns or raises.
SpecLive ==
  /\ InitServing
  /\ [][NextLive]_vars
  /\ WF_vars(Tick)
  /\ WF_vars(JobDone)
  /\ WF_vars(RunStep)


\* ------------------------------------------------------------------ claims
\* run has left its loop: the finally block, or the end of run
AfterLoop == pc \in { "finally", "log", "done" }

\* the k-th fetch of the current run returned status 200 with an error marker
MarkedAt(k) ==
  /\ k \in 1..Len(fetchLog)
  /\ fetchLog[k].status_code = 200
  /\ fetchLog[k].text = ErrorBody

\* the fetches of the current run before the k-th were all good
GoodBefore(k) == \A j \in 1..(k - 1) : Good(fetchLog[j])

\* the entry of end point e is as it was when the current run started
Kept(e) == e \notin touched

\* C1: at most one invocation of run is active at any time: the executor never
\* counts more than one running instance, and run is in progress exactly while
\* one is counted.
C1_AtMostOneRun ==
  /\ instances \in { 0, 1 }
  /\ (pc # "idle") <=> (instances = 1)

\* C1 witness: a tick fired while a run was fetching, and still one run is active.
C1_Witness == instances = 1 /\ missed /\ pc = "fetch"

\* C2: after a failing run armed the countdown with N = ERROR_COUNTDOWN, each
\* of the next N runs issues no login and no fetch and decrements the counter by
\* one, and run N+1 after the failure finds the countdown at 0 and no session,
\* and goes to quick_login.
C2_CooldownTicks ==
  /\ (sinceFail = 0 /\ (AfterLoop \/ pc = "idle")) =>
        (error_countdown = ERROR_COUNTDOWN /\ ctx = None)
  /\ sinceFail \in 1..ERROR_COUNTDOWN =>
        /\ pc \in { "countdown", "finally", "log", "done", "idle" }
        /\ logins = 0
        /\ fetchLog = << >>
        /\ ctx = None
        /\ error_countdown =
             IF pc = "countdown" THEN ERROR_COUNTDOWN - sinceFail + 1
                                 ELSE ERROR_COUNTDOWN - sinceFail
  /\ sinceFail = ERROR_COUNTDOWN + 1 =>
        /\ pc \in { "countdown", "login" }
        /\ error_countdown = 0
        /\ ctx = None
        /\ logins = 0
        /\ fetchLog = << >>

\* C2 witness: run N+1 after a failure is about to call quick_login.
C2_Witness == sinceFail = ERROR_COUNTDOWN + 1 /\ pc = "login"

\* C3: when the fetch of end point k returned status 200 with an error marker
\* and the earlier fetches of the run were good, then at the end of the run the
\* end points before k hold the bodies fetched in this run, end point k and the
\* later ones hold what they held before the run, no fetch was issued after the
\* k-th, the session is absent and the countdown is ERROR_COUNTDOWN.
C3_AbortOnMarker ==
  \A k \in 1..Len(fetchLog) :
    (AfterLoop /\ MarkedAt(k) /\ GoodBefore(k)) =>
      /\ Len(fetchLog) = k
      /\ \A j \in 1..k : fetchLog[j].end_point = END_POINTS[j]
      /\ \A j \in 1..(k - 1) : DictGet(data, END_POINTS[j]) = fetchLog[j].text
      /\ \A j \in k..Len(END_POINTS) : Kept(END_POINTS[j])
      /\ ctx = None
      /\ error_countdown = ERROR_COUNTDOWN

\* C3 witness: the second fetch carried the marker; the first end point got a
\* new body in this run and the later ones keep older ones.
C3_Witness ==
  /\ pc = "done"
  /\ MarkedAt(2) /\ GoodBefore(2)
  /\ END_POINTS[1] \in touched
  /\ DictGet(data, END_POINTS[2]) \in Bodies
  /\ DictGet(data, END_POINTS[Len(END_POINTS)]) \in Bodies

\* no fetch of the current run so far failed the run
NoFailureSoFar ==
  /\ raisedIn = "none"
  /\ \A j \in 1..Len(fetchLog) : Good(fetchLog[j]) \/ fetchLog[j].status_code = 500

\* run is inside its loop over END_POINTS
RunIsFetching == pc \in { "fetch", "check", "set_data", "set_write" }

\* C4: a fetch with a status other than 200 leaves that end point's entry as it
\* was, leaves the session and the countdown alone, and the run goes on to the
\* next end point: a run whose only irregular responses are such fetches keeps
\* its session and a zero countdown, and fetches every end point.
C4_TransportErrorSkipped ==
  /\ \A j \in 1..Len(fetchLog) :
       fetchLog[j].status_code = 500 =>
         /\ Kept(END_POINTS[j])
         /\ (AfterLoop /\ j < Len(END_POINTS)) =>
               /\ Len(fetchLog) > j
               /\ fetchLog[j + 1].end_point = END_POINTS[j + 1]
  /\ (NoFailureSoFar /\ (RunIsFetching \/ (AfterLoop /\ fetchLog # << >>))) =>
       (ctx = Session /\ error_countdown = 0)

\* C4 witness: the first fetch returned 500 and the run fetched all end points.
C4_Witness ==
  /\ pc = "done"
  /\ fetchLog # << >>
  /\ fetchLog[1].status_code = 500
  /\ Len(fetchLog) = Len(END_POINTS)
  /\ Good(fetchLog[2])
  /\ ctx = Session


\* get_data(key) as a value: what a call that enters the lock now returns
StoredValue(key) == DictGet(data, key)

\* the body fetched for e is on its way to the store
InFlight(e) ==
  /\ pc \in { "check", "set_data", "set_write" }
  /\ END_POINTS[i] = e
  /\ Good(result)

\* C5: for every end point, get_data returns the body of the latest fetch of it
\* that had status 200 and no error (None when there was none), except while
\* that body is on its way from the fetch into the store; no entry is ever
\* removed, and failing runs, skipped responses and countdown ticks leave the
\* entries alone.
C5_LastKnownGood ==
  /\ \A e \in EndPointSet : InFlight(e) \/ StoredValue(e) = lastGood[e]
  /\ \A e \in touched : e \in DOMAIN data
  /\ DOMAIN data \subseteq EndPointSet

\* C5 witness: in cooldown after a failure, every end point still has a body.
C5_Witness ==
  /\ error_countdown > 0
  /\ sinceFail = 1
  /\ pc = "done"
  /\ \A e \in EndPointSet : StoredValue(e) \in Bodies

\* the call of the try block that raised is no longer propagating
Caught == pending \in { "none", "dump" }

LockDiscipline ==
  /\ (lock = "scraper") <=> (pc \in { "set_write", "log" })
  /\ \A r \in Readers : (lock = r) <=> (readers[r].pc = "read")
  /\ lock \in { "free", "scraper" } \cup Readers

\* a get_data of reader r returns in this step
Returns(r) == readers[r].pc = "read" /\ readers'[r].pc = "idle"

\* C7: a get_data that overlaps set_data calls returns a value its key held at
\* some moment between the call and the return (the previous value, None, or a
\* complete new one), and whenever a get_data waits, what holds the lock is one
\* store operation in progress (set_data, get_data or log_contents), never a
\* login or a fetch.
C7_GetSeesOldOrNew ==
  /\ []LockDiscipline
  /\ [][ \A r \in Readers : Returns(r) => readers'[r].value \in readers[r].cand ]_vars

\* C7 witness: a get_data that began before a set_data of its key replaced one
\* body by another holds the lock and is about to return the new body.
C7_Witness ==
  \E r \in Readers :
    /\ readers[r].pc = "read"
    /\ Cardinality(readers[r].cand) = 2
    /\ None \notin readers[r].cand

\* C8: a request for an end point's path, in any state of the scraper, is
\* answered without an error and with the body the store holds for the end
\* point at that moment (nothing, if it holds none).
C8_ReaderServed ==
  resp # NoResp =>
    /\ resp.response.status = 200
    /\ resp.response.body = resp.cached

\* C9: a run starts only in a step of the trigger taken while no run is in
\* progress; the step that ends a run starts none, whatever ticks were
\* skipped during it.
C9_NoQueuedRun ==
  [][ (pc' = "countdown" /\ pc # "countdown") => (pc = "idle" /\ Tick) ]_vars

\* C9 witness: ticks were skipped during a run, the run has ended, and no run
\* is in progress although the scheduler is running.
C9_Witness ==
  /\ pc = "idle"
  /\ instances = 0
  /\ missed
  /\ schedState = "running"

\* main has reached its finally block: shutdown is requested or done
ShutdownRequested == mainPc \in { "shutdown", "wait", "done" }

MainExited == mainPc \in { "done", "failed" }

\* C11: on every exit path of main after the scheduler is created (the server
\* returns or is interrupted, or starting the scheduler, building the front end
\* or serving raises) the shutdown of the scheduler is performed and completes
\* cleanly: main is over only with the scheduler shut down, no run in progress
\* and no exception of the shutdown leaving main; and no run is in progress or
\* starts once main is over.
C11_ShutdownCompletes ==
  MainExited =>
    /\ mainPc = "done"
    /\ schedState = "shutdown"
    /\ instances = 0
    /\ pc = "idle"


\* this step of run found an error marker in a body with status 200
DetectsMarker ==
  /\ pc = "check"
  /\ StatusOk(result)
  /\ ~ ParseRaises(result.text)
  /\ ~ CheckRaises(result.text)
  /\ check_error(result.text) # None

\* this step of run is the handler of an exception raised in its try block
HandlesException == pc = "except" /\ pending # "none"

\* C12: quick_login is called in a run only when no session is held at that
\* point, and at most once per run; the session changes only in three kinds of
\* step: a login that sets it where there was none, the detection of an error
\* marker and the handling of an exception, both of which clear it.  In every
\* other step, within a run and from run to run, the session stays as it is.
C12_SessionReused ==
  /\ [](logins <= 1 /\ (pc = "login" => (ctx = None /\ logins = 0)))
  /\ [][ ctx' # ctx =>
           \/ (pc = "login" /\ ctx = None /\ ctx' = Session)
           \/ (DetectsMarker /\ ctx' = None)
           \/ (HandlesException /\ ctx' = None) ]_vars

\* C12 witness: a run that did not log in fetched every end point with the
\* session of an earlier run, and still holds it at its end.
C12_Witness ==
  /\ pc = "done"
  /\ logins = 0
  /\ Len(fetchLog) = Len(END_POINTS)
  /\ ctx = Session


\* a run is in progress that found the countdown positive when it started
InCooldownRun == pc # "idle" /\ sinceFail \in 1..ERROR_COUNTDOWN

\* C13: the countdown is never negative.  A run starts with a positive
\* countdown exactly when it is one of the ERROR_COUNTDOWN runs that follow a
\* failure; the first step of such a run takes one off the countdown and goes
\* to the end of run, and no step taken while such a run is in progress changes
\* anything else: the session and the store stay as they are, the countdown
\* changes in that first step only, and no login and no fetch is issued.
C13_CooldownNoOp ==
  /\ [](error_countdown >= 0)
  /\ [](pc = "countdown" => (InCooldown <=> sinceFail \in 1..ERROR_COUNTDOWN))
  /\ [][ InCooldownRun =>
           /\ ctx' = ctx
           /\ data' = data
           /\ logins' = 0
           /\ fetchLog' = << >>
           /\ touched' = {}
           /\ pc' \notin { "login", "fetch", "check", "set_data", "set_write" }
           /\ IF pc = "countdown" /\ pc' # pc
                THEN error_countdown' = error_countdown - 1 /\ pc' = "finally"
                ELSE error_countdown' = error_countdown ]_vars

\* C13 witness: the first run after a failure has taken one off the countdown
\* and is about to end; the store holds bodies of earlier runs.
C13_Witness ==
  /\ pc = "finally"
  /\ sinceFail = 1
  /\ error_countdown = ERROR_COUNTDOWN - 1
  /\ DOMAIN data = EndPointSet


\* the states of the scraper between ticks
COOLDOWN(n) == n > 0 /\ error_countdown = n

UNAUTHENTICATED == error_countdown = 0 /\ ctx = None

AUTHENTICATED_IDLE == error_countdown = 0 /\ ctx = Session

\* the run in progress or just ended started in COOLDOWN(n), and its step that
\* tests the countdown is taken
AfterTickIn(n) ==
  /\ n \in 1..ERROR_COUNTDOWN
  /\ sinceFail = ERROR_COUNTDOWN - n + 1
  /\ AfterLoop \/ pc = "idle"

\* C14 as stated: a tick taken in COOLDOWN(n), n > 0, leaves the scraper in
\* COOLDOWN(n-1), or in AUTHENTICATED_IDLE when n-1 = 0, and the tick that
\* follows goes to the fetch loop.
C14_CooldownToAuthenticated ==
  /\ \A n \in 1..ERROR_COUNTDOWN :
       AfterTickIn(n) => IF n - 1 > 0 THEN COOLDOWN(n - 1) ELSE AUTHENTICATED_IDLE
  /\ sinceFail = ERROR_COUNTDOWN + 1 => pc \in { "countdown", "fetch" }

\* C14, amended: a tick taken in COOLDOWN(n), n > 0, leaves the scraper in
\* COOLDOWN(n-1) with no session, or in UNAUTHENTICATED when n-1 = 0 (countdown
\* 0 and no session), and the tick that follows calls quick_login before any
\* fetch.
C14_CooldownToUnauthenticated ==
  /\ \A n \in 1..ERROR_COUNTDOWN :
       AfterTickIn(n) =>
         /\ ctx = None
         /\ IF n - 1 > 0 THEN COOLDOWN(n - 1) ELSE UNAUTHENTICATED
  /\ sinceFail = ERROR_COUNTDOWN + 1 =>
       (pc \in { "countdown", "login" } /\ fetchLog = << >>)

\* C14 witness: the tick taken in COOLDOWN(1) is over, no run is in progress,
\* the countdown is 0 and no session is held.
C14_Witness ==
  /\ pc = "idle"
  /\ AfterTickIn(1)
  /\ UNAUTHENTICATED


\* reader r waits for the lock while the dump of the store holds it
WaitsForDump(r) == readers[r].pc = "acquire" /\ lock = "scraper" /\ pc = "log"

\* C15: every acquisition of the store lock covers a single-entry lookup or
\* update: the scraper holds it only inside a store operation, never while it
\* logs in or fetches, no acquisition spans work on more than one entry, and a
\* get_data that waits for the lock waits for at most one single-entry
\* operation.
C15_LockCoversOneEntry ==
  /\ lock = "scraper" => pc \in { "set_write", "log" }
  /\ logged <= 1
  /\ \A r \in Readers : WaitsForDump(r) => Cardinality(DOMAIN data) <= 1


\* run is in its try block or its exception handler, or about to enter the dump
BeforeDump ==
  pc \in { "countdown", "login", "fetch", "check", "set_data", "set_write",
           "except", "finally" }

\* this step ends run
EndsRun == pc' = "done" /\ pc # "done"

\* this step enters log_contents
EntersDump == pc' = "log" /\ pc # "log"

\* C16: every invocation of run calls log_contents exactly once, whatever way
\* it took (cooldown return, end of the loop, error branch, exception handler):
\* no call before the finally block, one call made when run ends, the step that
\* ends run is a step of the dump, and no step of the dump changes the store,
\* the session or the countdown.
C16_DumpOnceAtEnd ==
  /\ [](BeforeDump => dumps = 0)
  /\ [](pc \in { "log", "done" } => dumps = 1)
  /\ [][ /\ EndsRun => (pc = "log" /\ (LogEntry \/ LogDump))
         /\ EntersDump => (pc = "finally" /\ LogAcquire)
         /\ pc \in { "finally", "log" } =>
              (data' = data /\ ctx' = ctx /\ error_countdown' = error_countdown)
       ]_vars

\* C16 witness: a run whose exception was handled has made its one dump of a
\* store that holds entries, and has returned.
C16_Witness ==
  /\ pc = "done"
  /\ raisedIn # "none"
  /\ outcome = "returned"
  /\ dumps = 1
  /\ DOMAIN data # {}


\* the fetches the current run has completed before its latest one
EarlierFetches == 1..(Len(fetchLog) - 1)

\* C17: within a run the end points are fetched in the order of END_POINTS,
\* each at most once, one fetch at a time; and when a fetch is issued, the body
\* of every earlier good fetch of the run is already what the store holds
\* for its end point, so that get_data returns it while the run goes on.
C17_StoredBeforeNextFetch ==
  /\ Len(fetchLog) <= Len(END_POINTS)
  /\ \A j \in 1..Len(fetchLog) : fetchLog[j].end_point = END_POINTS[j]
  /\ pc = "fetch" => Len(fetchLog) = i - 1
  /\ pc \in { "check", "set_data", "set_write" } => Len(fetchLog) = i
  /\ \A j \in EarlierFetches :
       Good(fetchLog[j]) => StoredValue(END_POINTS[j]) = fetchLog[j].text
  /\ pc = "fetch" =>
       \A j \in 1..Len(fetchLog) :
         Good(fetchLog[j]) => StoredValue(END_POINTS[j]) = fetchLog[j].text

\* C17 witness: the run is fetching the second end point, and a get_data of the
\* first end point that holds the lock is about to return the body this run
\* fetched for it, which differs from what the store held before the run.
C17_Witness ==
  \E r \in Readers :
    /\ pc = "fetch"
    /\ i = 2
    /\ readers[r].pc = "read"
    /\ readers[r].key = END_POINTS[1]
    /\ END_POINTS[1] \in touched
    /\ StoredValue(END_POINTS[1]) = fetchLog[1].text
    /\ None \notin readers[r].cand


\* C18: whenever the countdown is positive no session is held, in particular in
\* every state in which no run is in progress, and the countdown is never
\* above ERROR_COUNTDOWN (nor below 0).
C18_CooldownImpliesNoSession ==
  /\ error_countdown \in 0..ERROR_COUNTDOWN
  /\ error_countdown > 0 => ctx = None
  /\ (pc = "idle" /\ ctx = Session) => error_countdown = 0

\* C18 witness: no run is in progress, the last run failed after an earlier one
\* had filled the store; the countdown is at its configured value and the
\* session is gone.
C18_Witness ==
  /\ pc = "idle"
  /\ sinceFail = 0
  /\ error_countdown = ERROR_COUNTDOWN
  /\ ctx = None
  /\ DOMAIN data = EndPointSet


\* the latest fetch of the current run
LatestFetch == fetchLog[Len(fetchLog)]

\* this step changes the entry of end point e
Writes(e) == DictGet(data', e) # DictGet(data, e)

\* C19: the keys of the store are end points of END_POINTS, and every value
\* is a body that came with status 200, parsed and carried no error: a step
\* changes the entry of an end point only by storing the body that the latest
\* fetch of the run returned for that end point with status 200 and no error.
\* A body with an error marker, the body of a non-200 response and a body that
\* does not parse are never in the store.
C19_OnlyGoodBodiesCached ==
  /\ [](/\ DOMAIN data \subseteq EndPointSet
        /\ \A e \in DOMAIN data :
             /\ data[e] \in Bodies
             /\ data[e] \notin { ErrorBody, MalformedBody, UncheckableBody, ErrorPage, None })
  /\ [][ \A e \in EndPointSet :
           Writes(e) =>
             /\ pc = "set_write"
             /\ fetchLog # << >>
             /\ LatestFetch.end_point = e
             /\ Good(LatestFetch)
             /\ DictGet(data', e) = LatestFetch.text ]_vars

\* C19 witness: the only fetch of a run returned a body with an error marker
\* for the first end point, the run has ended, and the store still holds for
\* that end point the good body of an earlier run.
C19_Witness ==
  /\ pc = "done"
  /\ Len(fetchLog) = 1
  /\ MarkedAt(1)
  /\ StoredValue(END_POINTS[1]) \in Bodies


\* the scraper holds a session with the countdown at 0, and the run in progress,
\* all of it after the modem became reliable, has fetched every end point and
\* the store holds for every end point the body this run fetched
AllFresh ==
  /\ error_countdown = 0
  /\ ctx = Session
  /\ AfterLoop
  /\ healthySince = 0
  /\ Len(fetchLog) = Len(END_POINTS)
  /\ \A j \in 1..Len(END_POINTS) :
       /\ Good(fetchLog[j])
       /\ StoredValue(END_POINTS[j]) = fetchLog[j].text

\* C20: while ticks keep firing, once login and every fetch succeed, whatever
\* state the earlier failures left the scraper in (in cooldown, without a
\* session, in the middle of a failing run), it comes to hold a session with
\* the countdown at 0, and the entry of every end point is overwritten with a
\* body fetched after that moment.
C20_RecoversAndRefreshes == Reliable ~> AllFresh

\* C20 witness: the modem has become reliable while the scraper, after a
\* failure, is between runs with the countdown at its configured value and no
\* session, and the store holds the bodies of earlier runs.
C20_Witness ==
  /\ Reliable
  /\ pc = "idle"
  /\ COOLDOWN(ERROR_COUNTDOWN)
  /\ ctx = None
  /\ DOMAIN data = EndPointSet

=============================================================================
